---- MODULE Spec2Model ----
(***************************************************************************)
(* Model of the HAR trace analyzer (src/har-analyzer.js, class HARAnalyzer) *)
(* One analyzer object, its analysisReport, and the steps of               *)
(* analyzeHARFile: read the file, performAnalysis, generateReport,         *)
(* generateOptimizationPlan.                                               *)
(*                                                                         *)
(* Representation of JavaScript values:                                    *)
(*  - times are integral milliseconds;                                     *)
(*  - a mimeType string is the set of classification markers that occur    *)
(*    in it as substrings (String.includes is membership in that set);     *)
(*  - a URL is [id, len, analytics, tracking]: which URL it is, its length *)
(*    in characters, and whether those two substrings occur in it;         *)
(*  - an optional property is a sequence, << >> when absent, <<v>> else;   *)
(*  - a quotient a/b that is kept unrounded is the pair [num, den];        *)
(*  - a formatted byte count is [value, unit], value in hundredths.        *)
(***************************************************************************)
EXTENDS Integers, Sequences, FiniteSets, TLC

VARIABLES file, harFile, analysisReport, pc, consoleText, reportFile, exitCode, analysed

vars == <<file, harFile, analysisReport, pc, consoleText, reportFile, exitCode, analysed>>

(***************************************************************************)
(* Bounds of the model                                                     *)
(***************************************************************************)
MaxEntries == 3

MaxReuseEntries == 2

MaxRuns == 2

MaxCriticalEntries == 6

(***************************************************************************)
(* Program constants                                                       *)
(***************************************************************************)
targetLoadTime == 2

SlowRequestMs == 100

LargeFileKiB == 500

MinorGapMs == 50

CriticalGapMs == 200

CriticalResourceLimit == 5

DisplayLimit == 5

BottleneckUrlChars == 100

CriticalUrlChars == 80

GapUrlChars == 50

k == 1024

(***************************************************************************)
(* Generic helpers                                                         *)
(***************************************************************************)
Range(s) == {s[i] : i \in 1..Len(s)}

SeqsUpTo(S, n) == UNION {[1..m -> S] : m \in 0..n}

Take(s, n) == SubSeq(s, 1, IF Len(s) < n THEN Len(s) ELSE n)

RECURSIVE SumOver(_, _)
SumOver(f, S) ==
  IF S = {} THEN 0
  ELSE LET x == CHOOSE y \in S : TRUE IN f[x] + SumOver(f, S \ {x})

MaxOf(S) == CHOOSE x \in S : \A y \in S : y <= x

MinOf(S) == CHOOSE x \in S : \A y \in S : x <= y

Count(s, x) == Cardinality({i \in 1..Len(s) : s[i] = x})

\* Math.round(num/den) for den > 0: floor(num/den + 1/2)
MathRound(num, den) == (2 * num + den) \div (2 * den)

RECURSIVE Pow(_, _)
Pow(b, e) == IF e = 0 THEN 1 ELSE b * Pow(b, e - 1)

(***************************************************************************)
(* Array.prototype.sort with a comparator (a, b) => key(a) - key(b).       *)
(* The sort is stable; StableOrder(keys) is the permutation of 1..n that   *)
(* lists the indices by ascending key, equal keys in index order.          *)
(***************************************************************************)
RECURSIVE InsertIndexBeforeEqual(_, _, _)
InsertIndexBeforeEqual(ord, keys, i) ==
  IF ord = <<>> THEN <<i>>
  ELSE IF keys[Head(ord)] < keys[i]
       THEN <<Head(ord)>> \o InsertIndexBeforeEqual(Tail(ord), keys, i)
       ELSE <<i>> \o ord

RECURSIVE InsertIndex(_, _, _)
InsertIndex(ord, keys, i) ==
  IF ord = <<>> THEN <<i>>
  ELSE IF keys[Head(ord)] <= keys[i]
       THEN <<Head(ord)>> \o InsertIndex(Tail(ord), keys, i)
       ELSE <<i>> \o ord

RECURSIVE StableOrderUpTo(_, _)
StableOrderUpTo(keys, n) ==
  IF n = 0 THEN <<>> ELSE InsertIndex(StableOrderUpTo(keys, n - 1), keys, n)

StableOrder(keys) == StableOrderUpTo(keys, Len(keys))

SortAscendingBy(s, keys) ==
  LET ord == StableOrder(keys) IN [i \in 1..Len(s) |-> s[ord[i]]]

SortDescendingBy(s, keys) ==
  SortAscendingBy(s, [i \in 1..Len(keys) |-> 0 - keys[i]])

(***************************************************************************)
(* Reading an entry                                                        *)
(***************************************************************************)
\* new Date(entry.startedDateTime).getTime()
StartMs(entry) == entry.startedDateTime

\* String.prototype.includes on a mimeType
Includes(mimeType, marker) == marker \in mimeType

\* entry.response.content.mimeType || ""
ContentTypeOf(entry) == IF entry.mimeType = <<>> THEN {} ELSE entry.mimeType[1]

\* entry.response.content.size || 0
SizeOf(entry) ==
  IF entry.size = <<>> THEN 0 ELSE IF entry.size[1] = 0 THEN 0 ELSE entry.size[1]

\* url.substring(0, n) + (url.length > n ? "..." : "")
Truncate(url, n) ==
  [id |-> url.id, kept |-> IF url.len < n THEN url.len ELSE n, dots |-> url.len > n]

\* url.substring(0, n) + "..."
TruncateDots(url, n) ==
  [id |-> url.id, kept |-> IF url.len < n THEN url.len ELSE n, dots |-> TRUE]

(***************************************************************************)
(* formatBytes                                                             *)
(***************************************************************************)
Sizes == <<"Bytes", "KB", "MB", "GB">>

\* Math.floor(Math.log(bytes) / Math.log(k)) for bytes >= 1
RECURSIVE LogK(_)
LogK(bytes) == IF bytes < k THEN 0 ELSE 1 + LogK(bytes \div k)

formatBytes(bytes) ==
  IF bytes = 0 THEN [value |-> 0, unit |-> "Bytes"]
  ELSE IF bytes < 0 THEN [value |-> 0, unit |-> "NaN undefined"]
  ELSE LET i == LogK(bytes) IN
       [value |-> MathRound(bytes * 100, Pow(k, i)),
        unit  |-> IF i + 1 <= Len(Sizes) THEN Sizes[i + 1] ELSE "undefined"]

(***************************************************************************)
(* analyzeRequest                                                          *)
(***************************************************************************)
ResourceTypeJsFirst(contentType) ==
  IF Includes(contentType, "javascript") THEN "js"
  ELSE IF Includes(contentType, "text/html") THEN "html"
  ELSE IF Includes(contentType, "text/css") THEN "css"
  ELSE IF Includes(contentType, "image/") THEN "image"
  ELSE IF Includes(contentType, "font/") THEN "font"
  ELSE "other"

ResourceType(contentType) ==
  IF Includes(contentType, "text/html") THEN "html"
  ELSE IF Includes(contentType, "text/css") THEN "css"
  ELSE IF Includes(contentType, "javascript") THEN "js"
  ELSE IF Includes(contentType, "image/") THEN "image"
  ELSE IF Includes(contentType, "font/") THEN "font"
  ELSE "other"

IsSlowRequestGE(time) == time >= SlowRequestMs

IsSlowRequest(time) == time > SlowRequestMs

IsLargeFile(size) == size > LargeFileKiB * 1024

Bottleneck(entry, startTime, issue) ==
  [url       |-> Truncate(entry.url, BottleneckUrlChars),
   type      |-> ResourceType(ContentTypeOf(entry)),
   time      |-> entry.time,
   size      |-> formatBytes(SizeOf(entry)),
   startTime |-> StartMs(entry) - startTime,
   issue     |-> issue]

PushBottlenecks(bottlenecks, entry, startTime) ==
  LET b1 == IF IsSlowRequest(entry.time)
            THEN Append(bottlenecks, Bottleneck(entry, startTime, "Slow request"))
            ELSE bottlenecks
  IN IF IsLargeFile(SizeOf(entry))
     THEN Append(b1, Bottleneck(entry, startTime, "Large file size"))
     ELSE b1

NewBreakdown ==
  [count |-> 0, totalSize |-> 0, totalTime |-> 0,
   avgTime |-> [num |-> 0, den |-> 1], totalSizeFormatted |-> <<>>]

UpdateBreakdownNoIncrement(resourceBreakdown, resourceType, size, time) ==
  LET rb == IF resourceType \in DOMAIN resourceBreakdown
            THEN resourceBreakdown
            ELSE resourceBreakdown @@ (resourceType :> NewBreakdown)
      old == rb[resourceType]
      cnt == IF old.count = 0 THEN 1 ELSE old.count
  IN [rb EXCEPT ![resourceType] =
        [old EXCEPT !.count = cnt,
                    !.totalSize = old.totalSize + size,
                    !.totalTime = old.totalTime + time,
                    !.avgTime = [num |-> old.totalTime + time, den |-> cnt]]]

UpdateBreakdownOverwriteSize(resourceBreakdown, resourceType, size, time) ==
  LET rb == IF resourceType \in DOMAIN resourceBreakdown
            THEN resourceBreakdown
            ELSE resourceBreakdown @@ (resourceType :> NewBreakdown)
      old == rb[resourceType]
  IN [rb EXCEPT ![resourceType] =
        [old EXCEPT !.count = old.count + 1,
                    !.totalSize = size,
                    !.totalTime = old.totalTime + time,
                    !.avgTime = [num |-> old.totalTime + time, den |-> old.count + 1]]]

UpdateBreakdown(resourceBreakdown, resourceType, size, time) ==
  LET rb == IF resourceType \in DOMAIN resourceBreakdown
            THEN resourceBreakdown
            ELSE resourceBreakdown @@ (resourceType :> NewBreakdown)
      old == rb[resourceType]
  IN [rb EXCEPT ![resourceType] =
        [old EXCEPT !.count = old.count + 1,
                    !.totalSize = old.totalSize + size,
                    !.totalTime = old.totalTime + time,
                    !.avgTime = [num |-> old.totalTime + time, den |-> old.count + 1]]]

analyzeRequest(report, entry, startTime) ==
  [report EXCEPT
     !.bottlenecks = PushBottlenecks(report.bottlenecks, entry, startTime),
     !.resourceBreakdown =
        UpdateBreakdown(report.resourceBreakdown,
                        ResourceType(ContentTypeOf(entry)), SizeOf(entry), entry.time)]

\* entries.forEach((entry, index) => this.analyzeRequest(entry, index, startTime))
RECURSIVE AnalyzeRequests(_, _, _, _)
AnalyzeRequests(report, entries, n, startTime) ==
  IF n = 0 THEN report
  ELSE analyzeRequest(AnalyzeRequests(report, entries, n - 1, startTime),
                      entries[n], startTime)

(***************************************************************************)
(* identifyCriticalPath                                                    *)
(***************************************************************************)
\* entry.response.content.mimeType && entry.response.content.mimeType.includes("text/html")
IsHtmlEntry(entry) ==
  IF entry.mimeType = <<>> THEN FALSE ELSE Includes(entry.mimeType[1], "text/html")

\* entries.find(...): the first entry in list order that satisfies the test
FindHtmlEntry(entries) ==
  LET hits == {i \in 1..Len(entries) : IsHtmlEntry(entries[i])}
  IN IF hits = {} THEN <<>> ELSE <<entries[MinOf(hits)]>>

IsCriticalResourceTrackingKept(entry) ==
  /\ Includes(ContentTypeOf(entry), "text/css") \/ Includes(ContentTypeOf(entry), "javascript")
  /\ ~entry.url.analytics

IsCriticalResource(entry) ==
  /\ Includes(ContentTypeOf(entry), "text/css") \/ Includes(ContentTypeOf(entry), "javascript")
  /\ ~entry.url.analytics
  /\ ~entry.url.tracking

CriticalResources(entries) ==
  LET kept == SelectSeq(entries, IsCriticalResource)
  IN SortAscendingBy(kept, [i \in 1..Len(kept) |-> kept[i].time])

CriticalItem(entry) ==
  [type |-> IF Includes(entry.mimeType[1], "css") THEN "Critical CSS" ELSE "Critical JS",
   url  |-> TruncateDots(entry.url, CriticalUrlChars),
   time |-> entry.time,
   size |-> formatBytes(SizeOf(entry))]

HtmlItem(htmlEntry) ==
  [type |-> "HTML Document",
   url  |-> TruncateDots(htmlEntry.url, CriticalUrlChars),
   time |-> htmlEntry.time,
   size |-> formatBytes(SizeOf(htmlEntry))]

identifyCriticalPath(report, entries) ==
  LET htmlEntry == FindHtmlEntry(entries)
      withHtml  == IF htmlEntry # <<>>
                   THEN Append(report.criticalPathItems, HtmlItem(htmlEntry[1]))
                   ELSE report.criticalPathItems
      chosen    == Take(CriticalResources(entries), CriticalResourceLimit)
  IN [report EXCEPT
        !.criticalPathItems = withHtml \o [i \in 1..Len(chosen) |-> CriticalItem(chosen[i])]]

(***************************************************************************)
(* findPerformanceGaps                                                     *)
(***************************************************************************)
Timeline(entries, startTime) ==
  LET points == [i \in 1..Len(entries) |->
                   [start |-> StartMs(entries[i]) - startTime,
                    end   |-> StartMs(entries[i]) - startTime + entries[i].time,
                    url   |-> entries[i].url,
                    time  |-> entries[i].time]]
  IN SortAscendingBy(points, [i \in 1..Len(points) |-> points[i].start])

IsGapGE(gap) == gap >= MinorGapMs

IsGap(gap) == gap > MinorGapMs

GapSuggestion(gap) ==
  IF gap > CriticalGapMs THEN "Critical gap - investigate waterfall"
  ELSE "Minor optimization opportunity"

GapBetweenFromStart(before, after) ==
  [gapStart       |-> before.start,
   gapEnd         |-> after.start,
   gapDuration    |-> after.start - before.end,
   beforeResource |-> TruncateDots(before.url, GapUrlChars),
   afterResource  |-> TruncateDots(after.url, GapUrlChars),
   suggestion     |-> GapSuggestion(after.start - before.end)]

GapBetween(before, after) ==
  [gapStart       |-> before.end,
   gapEnd         |-> after.start,
   gapDuration    |-> after.start - before.end,
   beforeResource |-> TruncateDots(before.url, GapUrlChars),
   afterResource  |-> TruncateDots(after.url, GapUrlChars),
   suggestion     |-> GapSuggestion(after.start - before.end)]

\* the loop for (i = 1; i < timeline.length; i++), up to the pair ending at position n
RECURSIVE TimelineGaps(_, _)
TimelineGaps(timeline, n) ==
  IF n <= 1 THEN <<>>
  ELSE TimelineGaps(timeline, n - 1) \o
       (IF IsGap(timeline[n].start - timeline[n - 1].end)
        THEN <<GapBetween(timeline[n - 1], timeline[n])>>
        ELSE <<>>)

\* this.analysisReport.totalLoadTime > this.targetLoadTime
ExceedsTargetGE(totalLoadTime) == totalLoadTime >= targetLoadTime

ExceedsTarget(totalLoadTime) == totalLoadTime > targetLoadTime

TargetExceeded(totalLoadTime) ==
  [type       |-> "Target Exceeded",
   excess     |-> totalLoadTime - targetLoadTime,
   suggestion |-> [text |-> "Total load time exceeds target",
                   target |-> targetLoadTime,
                   excess |-> totalLoadTime - targetLoadTime]]

findPerformanceGaps(report, entries, startTime) ==
  LET timeline == Timeline(entries, startTime)
      gaps     == report.performanceGaps \o TimelineGaps(timeline, Len(timeline))
  IN [report EXCEPT
        !.performanceGaps =
           IF ExceedsTarget(report.totalLoadTime)
           THEN Append(gaps, TargetExceeded(report.totalLoadTime))
           ELSE gaps]

(***************************************************************************)
(* analyzeResourceBreakdown, identifyBottlenecks                           *)
(***************************************************************************)
analyzeResourceBreakdown(report) ==
  [report EXCEPT
     !.resourceBreakdown =
        [type \in DOMAIN report.resourceBreakdown |->
           LET breakdown == report.resourceBreakdown[type] IN
           [breakdown EXCEPT
              !.avgTime = [num |-> MathRound(breakdown.avgTime.num, breakdown.avgTime.den),
                           den |-> 1],
              !.totalSizeFormatted = <<formatBytes(breakdown.totalSize)>>]]]

SortBottlenecksNot(bottlenecks) == bottlenecks

SortBottlenecks(bottlenecks) ==
  SortDescendingBy(bottlenecks, [i \in 1..Len(bottlenecks) |-> bottlenecks[i].time])

identifyBottlenecks(report) ==
  [report EXCEPT !.bottlenecks = SortBottlenecks(report.bottlenecks)]

(***************************************************************************)
(* performAnalysis (entries non-empty)                                     *)
(***************************************************************************)
\* new Date(entries[0].startedDateTime).getTime()
StartTimeOf(entries) == StartMs(entries[1])

\* Math.max(...entries.map(e => new Date(e.startedDateTime).getTime() + e.time))
EndTimeOf(entries) == MaxOf({StartMs(entries[i]) + entries[i].time : i \in 1..Len(entries)})

performAnalysis(report, entries) ==
  LET startTime == StartTimeOf(entries)
      r0 == [report EXCEPT !.totalLoadTime = EndTimeOf(entries) - startTime]
      r1 == AnalyzeRequests(r0, entries, Len(entries), startTime)
      r2 == identifyCriticalPath(r1, entries)
      r3 == findPerformanceGaps(r2, entries, startTime)
      r4 == analyzeResourceBreakdown(r3)
  IN identifyBottlenecks(r4)

(***************************************************************************)
(* generateOptimizationPlan                                                *)
(***************************************************************************)
Optimization(priority, category) == [priority |-> priority, category |-> category]

\* this.analysisReport.bottlenecks.filter((b) => b.type === "image").length > 0
HasImageBottleneckLargeOnly(bottlenecks) ==
  \E i \in 1..Len(bottlenecks) :
    bottlenecks[i].type = "image" /\ bottlenecks[i].issue = "Large file size"

HasImageBottleneck(bottlenecks) ==
  \E i \in 1..Len(bottlenecks) : bottlenecks[i].type = "image"

\* this.analysisReport.bottlenecks.filter((b) => b.issue === issue).length > 0
HasIssueAny(bottlenecks, issue) == Len(bottlenecks) > 0

HasIssue(bottlenecks, issue) ==
  \E i \in 1..Len(bottlenecks) : bottlenecks[i].issue = issue

Optimizations(report) ==
  (IF HasImageBottleneck(report.bottlenecks)
   THEN <<Optimization("HIGH", "Images")>> ELSE <<>>) \o
  (IF HasIssue(report.bottlenecks, "Large file size")
   THEN <<Optimization("HIGH", "File Size")>> ELSE <<>>) \o
  (IF HasIssue(report.bottlenecks, "Slow request")
   THEN <<Optimization("MEDIUM", "Network")>> ELSE <<>>) \o
  (IF Len(report.performanceGaps) > 0
   THEN <<Optimization("MEDIUM", "Loading Strategy")>> ELSE <<>>) \o
  (IF ExceedsTarget(report.totalLoadTime)
   THEN <<Optimization("CRITICAL", "Overall Performance")>> ELSE <<>>)

generateOptimizationPlan(report) == [report EXCEPT !.optimizations = Optimizations(report)]

(***************************************************************************)
(* generateReport: the text printed and the JSON file written              *)
(***************************************************************************)
PerformanceStatus(report) ==
  IF report.totalLoadTime <= targetLoadTime THEN "GOOD" ELSE "NEEDS_OPTIMIZATION"

RenderedText(report) ==
  [totalLoadTime     |-> report.totalLoadTime,
   targetLoadTime    |-> targetLoadTime,
   status            |-> PerformanceStatus(report),
   resourceBreakdown |-> report.resourceBreakdown,
   criticalPath      |-> report.criticalPathItems,
   performanceGaps   |-> Take(report.performanceGaps, DisplayLimit),
   bottlenecks       |-> Take(report.bottlenecks, DisplayLimit),
   optimizations     |-> report.optimizations]

WrittenJson(report) ==
  [summary |-> [totalLoadTime     |-> report.totalLoadTime,
                targetLoadTime    |-> targetLoadTime,
                performanceStatus |-> PerformanceStatus(report)],
   report  |-> report]

(***************************************************************************)
(* Inputs: what the file at harFilePath holds                              *)
(***************************************************************************)
Url(id, len, analytics, tracking) ==
  [id |-> id, len |-> len, analytics |-> analytics, tracking |-> tracking]

Entry(started, time, url, mimeType, size) ==
  [startedDateTime |-> started, time |-> time, url |-> url,
   status |-> <<200>>, mimeType |-> mimeType, size |-> size]

\* an entry whose response has no status property
WithoutStatus(entry) == [entry EXCEPT !.status = <<>>]

Starts == {0, 200, 500}

Times == {50, 100, 150}

PageUrl == Url("page", 30, FALSE, FALSE)

ImageUrl == Url("hero", 120, FALSE, FALSE)

StyleUrl == Url("style", 60, FALSE, FALSE)

\* the entries a trace of the main specification is made of
EntryPool ==
  {Entry(s, t, PageUrl, <<{"text/html"}>>, <<20 * 1024>>) : s \in Starts, t \in Times}
  \cup {Entry(0, 150, ImageUrl, <<{"image/"}>>, <<600 * 1024>>),
        Entry(200, 300, ImageUrl, <<{"image/"}>>, <<600 * 1024>>),
        Entry(500, 150, ImageUrl, <<{"image/"}>>, <<600 * 1024>>),
        Entry(0, 50, StyleUrl, <<{"text/css", "css"}>>, <<500 * 1024>>)}

\* the entries a trace is made of when one analyzer analyses several traces
ReusePool ==
  {Entry(0, 50, PageUrl, <<{"text/html"}>>, <<20 * 1024>>),
   Entry(500, 150, ImageUrl, <<{"image/"}>>, <<600 * 1024>>),
   Entry(200, 50, StyleUrl, <<{"text/css", "css"}>>, <<5 * 1024>>)}

ScriptUrl == Url("app", 40, FALSE, FALSE)

FontUrl == Url("font", 40, FALSE, FALSE)

AnalyticsUrl == Url("analytics", 45, TRUE, FALSE)

TrackingUrl == Url("tracking", 45, FALSE, TRUE)

\* the entries of the traces that exercise the classifier and the rule table:
\* content types with one, several or no marker, durations around the target
\* and the slow-request threshold, sizes around the large-file threshold
RulesPool ==
  {Entry(0, 2, PageUrl, <<{"text/html"}>>, <<20 * 1024>>),
   Entry(0, 3, PageUrl, <<{"text/html", "javascript"}>>, <<20 * 1024>>),
   Entry(0, 50, ImageUrl, <<{"image/"}>>, <<600 * 1024>>),
   Entry(0, 150, ImageUrl, <<{"image/", "font/"}>>, <<20 * 1024>>),
   Entry(0, 2, ScriptUrl, <<{"javascript", "image/"}>>, <<600 * 1024>>),
   Entry(0, 150, StyleUrl, <<{"text/css", "css", "javascript"}>>, <<5 * 1024>>),
   Entry(0, 2, FontUrl, <<{"font/"}>>, <<20 * 1024>>),
   Entry(0, 2, PageUrl, <<>>, <<>>),
   Entry(0, 3, StyleUrl, <<{"css"}>>, <<0>>),
   Entry(1, 1, PageUrl, <<{}>>, <<20 * 1024>>),
   Entry(0, 2, ImageUrl, <<{"image/"}>>, <<0 - 1>>),
   WithoutStatus(Entry(0, 2, PageUrl, <<{"text/html"}>>, <<20 * 1024>>))}

\* the entries of the traces whose aggregation is compared over all orders and splits
MergePool ==
  {Entry(0, 2, PageUrl, <<{"text/html"}>>, <<20 * 1024>>),
   Entry(0, 3, PageUrl, <<{"text/html", "javascript"}>>, <<5 * 1024>>),
   Entry(0, 50, ImageUrl, <<{"image/"}>>, <<600 * 1024>>),
   Entry(0, 150, ImageUrl, <<{"image/", "font/"}>>, <<20 * 1024>>),
   Entry(0, 150, StyleUrl, <<{"text/css", "css", "javascript"}>>, <<5 * 1024>>)}

\* the entries of the traces that exercise the choice of critical resources
CriticalPool ==
  {Entry(0, 30, StyleUrl, <<{"text/css", "css"}>>, <<5 * 1024>>),
   Entry(0, 10, ScriptUrl, <<{"javascript"}>>, <<5 * 1024>>),
   Entry(0, 5, TrackingUrl, <<{"javascript"}>>, <<5 * 1024>>),
   Entry(0, 5, AnalyticsUrl, <<{"text/css", "css"}>>, <<5 * 1024>>)}

Har(entries) == [kind |-> "har", entries |-> entries]

\* no file at the path; a file that is not JSON; JSON without log.entries
BadFiles == {[kind |-> "missing"], [kind |-> "unparsable"], [kind |-> "noLog"]}

Files == BadFiles \cup {Har(es) : es \in SeqsUpTo(EntryPool, MaxEntries)}

RulesFiles == BadFiles \cup {Har(es) : es \in SeqsUpTo(RulesPool, MaxEntries)}

CriticalFiles == BadFiles \cup {Har(es) : es \in SeqsUpTo(CriticalPool, MaxCriticalEntries)}

MergeFiles == BadFiles \cup {Har(es) : es \in SeqsUpTo(MergePool, MaxEntries)}

ReuseFiles == BadFiles \cup {Har(es) : es \in SeqsUpTo(ReusePool, MaxReuseEntries)}

(***************************************************************************)
(* The analyzer                                                            *)
(***************************************************************************)
\* constructor
NewReport ==
  [totalLoadTime |-> 0,
   criticalPathItems |-> <<>>,
   largestContentfulPaint |-> 0,
   firstContentfulPaint |-> 0,
   timeToInteractive |-> 0,
   performanceGaps |-> <<>>,
   optimizations |-> <<>>,
   resourceBreakdown |-> <<>>,
   bottlenecks |-> <<>>]

InitWith(files) ==
  /\ file \in files
  /\ harFile = [kind |-> "null"]
  /\ analysisReport = NewReport
  /\ pc = "analyzeHARFile"
  /\ consoleText = <<>>
  /\ reportFile = <<>>
  /\ exitCode = -1
  /\ analysed = <<>>

Init == InitWith(Files)

InitReuse == InitWith(ReuseFiles)

InitRules == InitWith(RulesFiles)

InitCritical == InitWith(CriticalFiles)

InitMerge == InitWith(MergeFiles)

\* analyzeHARFile: existsSync, readFileSync and JSON.parse succeed
ReadHARFile ==
  /\ pc = "analyzeHARFile"
  /\ file.kind \notin {"missing", "unparsable"}
  /\ harFile' = file
  /\ pc' = "performAnalysis"
  /\ UNCHANGED <<file, analysisReport, consoleText, reportFile, exitCode, analysed>>

ReadHARFileFailsExitZero ==
  /\ pc = "analyzeHARFile"
  /\ file.kind \in {"missing", "unparsable"}
  /\ pc' = "exited"
  /\ exitCode' = 0
  /\ UNCHANGED <<file, harFile, analysisReport, consoleText, reportFile, analysed>>

\* analyzeHARFile: the file is missing or JSON.parse throws; catch, process.exit(1)
ReadHARFileFails ==
  /\ pc = "analyzeHARFile"
  /\ file.kind \in {"missing", "unparsable"}
  /\ pc' = "exited"
  /\ exitCode' = 1
  /\ UNCHANGED <<file, harFile, analysisReport, consoleText, reportFile, analysed>>

\* this.harFile.log.entries is undefined, or entries[0] is: a TypeError is thrown
\* before anything is assigned
AnalysisThrows(har) == IF har.kind = "har" THEN Len(har.entries) = 0 ELSE TRUE

PerformAnalysis ==
  /\ pc = "performAnalysis"
  /\ ~AnalysisThrows(harFile)
  /\ analysisReport' = performAnalysis(analysisReport, harFile.entries)
  /\ analysed' = Append(analysed, harFile.entries)
  /\ pc' = "generateReport"
  /\ UNCHANGED <<file, harFile, consoleText, reportFile, exitCode>>

PerformAnalysisFailsWritesReport ==
  /\ pc = "performAnalysis"
  /\ AnalysisThrows(harFile)
  /\ reportFile' = <<WrittenJson(analysisReport)>>
  /\ pc' = "exited"
  /\ exitCode' = 1
  /\ UNCHANGED <<file, harFile, analysisReport, consoleText, analysed>>

\* the TypeError is caught in analyzeHARFile: process.exit(1)
PerformAnalysisFails ==
  /\ pc = "performAnalysis"
  /\ AnalysisThrows(harFile)
  /\ pc' = "exited"
  /\ exitCode' = 1
  /\ UNCHANGED <<file, harFile, analysisReport, consoleText, reportFile, analysed>>

GenerateReport ==
  /\ pc = "generateReport"
  /\ consoleText' = <<RenderedText(analysisReport)>>
  /\ reportFile' = <<WrittenJson(analysisReport)>>
  /\ pc' = "generateOptimizationPlan"
  /\ UNCHANGED <<file, harFile, analysisReport, exitCode, analysed>>

GenerateOptimizationPlan ==
  /\ pc = "generateOptimizationPlan"
  /\ analysisReport' = generateOptimizationPlan(analysisReport)
  /\ pc' = "returned"
  /\ UNCHANGED <<file, harFile, consoleText, reportFile, exitCode, analysed>>

\* main: analyzeHARFile has returned, the next steps are printed, the process ends
MainReturns ==
  /\ pc = "returned"
  /\ pc' = "exited"
  /\ exitCode' = 0
  /\ UNCHANGED <<file, harFile, analysisReport, consoleText, reportFile, analysed>>

\* a caller of the exported class calls analyzeHARFile again on the same object
AnalyzeAgain ==
  /\ pc = "returned"
  /\ Len(analysed) < MaxRuns
  /\ file' \in ReuseFiles
  /\ pc' = "analyzeHARFile"
  /\ UNCHANGED <<harFile, analysisReport, consoleText, reportFile, exitCode, analysed>>

Next ==
  \/ ReadHARFile
  \/ ReadHARFileFails
  \/ PerformAnalysis
  \/ PerformAnalysisFails
  \/ GenerateReport
  \/ GenerateOptimizationPlan
  \/ MainReturns

NextReuse ==
  \/ ReadHARFile
  \/ ReadHARFileFails
  \/ PerformAnalysis
  \/ PerformAnalysisFails
  \/ GenerateReport
  \/ GenerateOptimizationPlan
  \/ AnalyzeAgain

Spec == Init /\ [][Next]_vars

SpecReuse == InitReuse /\ [][NextReuse]_vars

SpecRules == InitRules /\ [][Next]_vars

SpecCritical == InitCritical /\ [][Next]_vars

SpecMerge == InitMerge /\ [][Next]_vars

TypeOK ==
  /\ pc \in {"analyzeHARFile", "performAnalysis", "generateReport",
             "generateOptimizationPlan", "returned", "exited"}
  /\ exitCode \in {-1, 0, 1}
  /\ Len(reportFile) <= 1
  /\ Len(consoleText) <= 1

(***************************************************************************)
(* What the claims speak of                                                *)
(***************************************************************************)
\* performAnalysis has run on the trace held in harFile
AnalysisDone == pc \in {"generateReport", "generateOptimizationPlan", "returned"}

EntriesNow == harFile.entries

StartOffsets(entries) == {StartMs(entries[i]) : i \in 1..Len(entries)}

EndOffsets(entries) == {StartMs(entries[i]) + entries[i].time : i \in 1..Len(entries)}

IsTimelineGap(g) == "gapStart" \in DOMAIN g

TimelineGapsIn(report) == SelectSeq(report.performanceGaps, IsTimelineGap)

\* the report a new analyzer holds after analysing the entries
FreshAnalysis(entries) == performAnalysis(NewReport, entries)

(***************************************************************************)
(* C1: for every non-empty trace, in any order of its entries, the         *)
(* totalLoadTime computed by performAnalysis is the largest start+duration *)
(* minus the smallest start of all entries.                                *)
(***************************************************************************)
C1_TotalLoadTimeIsSpan ==
  AnalysisDone =>
    analysisReport.totalLoadTime
      = MaxOf(EndOffsets(EntriesNow)) - MinOf(StartOffsets(EntriesNow))

(***************************************************************************)
(* C2: analysing a trace whose entry list is empty raises no error and     *)
(* yields a report with totalLoadTime 0 and empty collections.             *)
(***************************************************************************)
C2_EmptyTraceYieldsEmptyReport ==
  (harFile.kind = "har" /\ pc = "exited") =>
    (harFile.entries = <<>> =>
       /\ exitCode = 0
       /\ reportFile # <<>>
       /\ analysisReport.totalLoadTime = 0
       /\ analysisReport.resourceBreakdown = <<>>
       /\ analysisReport.criticalPathItems = <<>>
       /\ analysisReport.performanceGaps = <<>>
       /\ analysisReport.bottlenecks = <<>>
       /\ analysisReport.optimizations = <<>>)

(***************************************************************************)
(* C3: every timeline gap reported by findPerformanceGaps is idle: no      *)
(* record of the trace has an interval [start, end] that overlaps the open *)
(* interval (gapStart, gapEnd).                                            *)
(***************************************************************************)
C3_GapsAreIdle ==
  AnalysisDone =>
    LET gaps == TimelineGapsIn(analysisReport)
        origin == StartTimeOf(EntriesNow)
    IN \A j \in 1..Len(gaps) : \A i \in 1..Len(EntriesNow) :
         ~ /\ StartMs(EntriesNow[i]) - origin < gaps[j].gapEnd
           /\ StartMs(EntriesNow[i]) - origin + EntriesNow[i].time > gaps[j].gapStart

C6_GapDetectionIdempotent ==
  (AnalysisDone /\ Len(analysed) = 2 /\ analysed[1] = analysed[2]) =>
    TimelineGapsIn(analysisReport) = TimelineGapsIn(FreshAnalysis(analysed[1]))

(***************************************************************************)
(* C7: the report of analysing a trace depends on the trace only: after    *)
(* any earlier analysis by the same analyzer it has the same resource      *)
(* breakdown, critical path, gaps, bottlenecks and recommendations as the  *)
(* report of a new analyzer.                                               *)
(***************************************************************************)
C7_RunsAreIndependent ==
  pc = "returned" =>
    LET fresh == generateOptimizationPlan(FreshAnalysis(EntriesNow)) IN
    /\ analysisReport.resourceBreakdown = fresh.resourceBreakdown
    /\ analysisReport.criticalPathItems = fresh.criticalPathItems
    /\ analysisReport.performanceGaps = fresh.performanceGaps
    /\ analysisReport.bottlenecks = fresh.bottlenecks
    /\ analysisReport.optimizations = fresh.optimizations

(***************************************************************************)
(* C8: the report written out (the JSON file and the text printed by       *)
(* generateReport) contains every recommendation the rule table derives    *)
(* from the run's findings, and the report is not changed after it was     *)
(* written.                                                                *)
(***************************************************************************)
C8_WrittenReportHasRecommendations ==
  (pc \in {"returned", "exited"} /\ reportFile # <<>>) =>
    /\ reportFile[1].report.optimizations = Optimizations(analysisReport)
    /\ consoleText[1].optimizations = Optimizations(analysisReport)
    /\ reportFile[1].report = analysisReport

(***************************************************************************)
(* C9: analyzeRequest adds a 'Slow request' bottleneck for a record if and *)
(* only if its duration > 100 and a 'Large file size' bottleneck if and    *)
(* only if its size > 500*1024: zero, one or two entries per record, and   *)
(* every bottleneck entry satisfies one of the two rules.                  *)
(***************************************************************************)
Trips(entry, issue) ==
  IF issue = "Slow request" THEN entry.time > 100 ELSE SizeOf(entry) > 500 * 1024

C9_BottlenecksPerRecord ==
  AnalysisDone =>
    LET b == analysisReport.bottlenecks
        origin == StartTimeOf(EntriesNow)
    IN /\ \A i \in 1..Len(EntriesNow) : \A issue \in {"Slow request", "Large file size"} :
            LET made == Bottleneck(EntriesNow[i], origin, issue) IN
            Count(b, made)
              = Cardinality({j \in 1..Len(EntriesNow) :
                               /\ Trips(EntriesNow[j], issue)
                               /\ Bottleneck(EntriesNow[j], origin, issue) = made})
       /\ \A n \in 1..Len(b) :
            /\ b[n].issue \in {"Slow request", "Large file size"}
            /\ \E i \in 1..Len(EntriesNow) :
                 /\ b[n] = Bottleneck(EntriesNow[i], origin, b[n].issue)
                 /\ Trips(EntriesNow[i], b[n].issue)

C9_Witness ==
  /\ AnalysisDone
  /\ Len(EntriesNow) = 3
  /\ EntriesNow[1].time = 150 /\ SizeOf(EntriesNow[1]) = 600 * 1024
  /\ EntriesNow[2].time = 100 /\ SizeOf(EntriesNow[2]) = 20 * 1024
  /\ EntriesNow[3].time = 50 /\ SizeOf(EntriesNow[3]) = 500 * 1024
  /\ Len(analysisReport.bottlenecks) = 2

(***************************************************************************)
(* C10: after performAnalysis the bottleneck list of the report is sorted  *)
(* non-increasing by request duration and holds all bottleneck entries;    *)
(* the limit of 5 applies to the display only.                             *)
(***************************************************************************)
C10_BottlenecksSortedAndComplete ==
  AnalysisDone =>
    LET b == analysisReport.bottlenecks IN
    /\ \A i \in 1..Len(b) : \A j \in 1..Len(b) : i < j => b[i].time >= b[j].time
    /\ Len(b) = Cardinality({i \in 1..Len(EntriesNow) : EntriesNow[i].time > 100})
                + Cardinality({i \in 1..Len(EntriesNow) : SizeOf(EntriesNow[i]) > 500 * 1024})
    /\ reportFile # <<>> =>
         /\ reportFile[1].report.bottlenecks = b
         /\ consoleText[1].bottlenecks = Take(b, 5)

C10_Witness ==
  /\ pc = "generateOptimizationPlan"
  /\ Len(analysisReport.bottlenecks) = 6
  /\ Len(reportFile[1].report.bottlenecks) = 6
  /\ Len(consoleText[1].bottlenecks) = 5
  /\ EntriesNow[1].time < EntriesNow[2].time
  /\ analysisReport.bottlenecks[1].time = 300
  /\ analysisReport.bottlenecks[6].time = 150

(***************************************************************************)
(* C11: the Gap list placed in the report is sorted descending by gap      *)
(* duration.                                                               *)
(***************************************************************************)
C11_GapsSortedDescending ==
  AnalysisDone =>
    LET gaps == TimelineGapsIn(analysisReport) IN
    \A i \in 1..Len(gaps) : \A j \in 1..Len(gaps) :
      i < j => gaps[i].gapDuration >= gaps[j].gapDuration

(***************************************************************************)
(* C12: the 'Loading Strategy' (MEDIUM) recommendation is emitted if and   *)
(* only if at least one timeline Gap between adjacent records was          *)
(* detected; the 'Target Exceeded' finding does not count as a Gap.        *)
(***************************************************************************)
HasOptimization(report, priority, category) ==
  \E i \in 1..Len(report.optimizations) :
    report.optimizations[i] = Optimization(priority, category)

CategoryCount(report, category) ==
  Cardinality({i \in 1..Len(report.optimizations) :
                 report.optimizations[i].category = category})

C12_LoadingStrategyIffTimelineGap ==
  pc = "returned" =>
    (HasOptimization(analysisReport, "MEDIUM", "Loading Strategy")
       <=> TimelineGapsIn(analysisReport) # <<>>)

(***************************************************************************)
(* C13: if the bottleneck list holds at least one entry of an image-class  *)
(* record, whatever its issue and however many there are, the              *)
(* recommendations contain exactly one entry 'Images' with priority HIGH;  *)
(* with no image-class bottleneck they contain none.                       *)
(***************************************************************************)
ImageBottlenecks(report) ==
  {i \in 1..Len(report.bottlenecks) : report.bottlenecks[i].type = "image"}

C13_ImagesRecommendation ==
  pc = "returned" =>
    IF ImageBottlenecks(analysisReport) # {}
    THEN /\ CategoryCount(analysisReport, "Images") = 1
         /\ HasOptimization(analysisReport, "HIGH", "Images")
    ELSE CategoryCount(analysisReport, "Images") = 0

C13_Witness ==
  /\ pc = "returned"
  /\ Cardinality(ImageBottlenecks(analysisReport)) = 2
  /\ \A i \in ImageBottlenecks(analysisReport) :
       analysisReport.bottlenecks[i].issue = "Slow request"
  /\ CategoryCount(analysisReport, "Images") = 1

(***************************************************************************)
(* C14: whenever totalLoadTime > targetLoadTime (2) the analysis emits     *)
(* exactly one CRITICAL 'Overall Performance' recommendation and exactly   *)
(* one 'Target Exceeded' finding with excess = totalLoadTime - 2; when     *)
(* totalLoadTime <= 2 it emits neither.                                    *)
(***************************************************************************)
TargetFindings(report) ==
  {i \in 1..Len(report.performanceGaps) : ~IsTimelineGap(report.performanceGaps[i])}

C14_TargetExceededOnce ==
  pc = "returned" =>
    IF analysisReport.totalLoadTime > 2
    THEN /\ CategoryCount(analysisReport, "Overall Performance") = 1
         /\ HasOptimization(analysisReport, "CRITICAL", "Overall Performance")
         /\ Cardinality(TargetFindings(analysisReport)) = 1
         /\ \A i \in TargetFindings(analysisReport) :
              /\ analysisReport.performanceGaps[i].type = "Target Exceeded"
              /\ analysisReport.performanceGaps[i].excess = analysisReport.totalLoadTime - 2
    ELSE /\ CategoryCount(analysisReport, "Overall Performance") = 0
         /\ TargetFindings(analysisReport) = {}

C14_Witness ==
  /\ pc = "returned"
  /\ analysisReport.totalLoadTime = 3
  /\ Cardinality(TargetFindings(analysisReport)) = 1
  /\ analysisReport.performanceGaps[Len(analysisReport.performanceGaps)].excess = 1
  /\ HasOptimization(analysisReport, "CRITICAL", "Overall Performance")

(***************************************************************************)
(* C15: the 'File Size' (HIGH) recommendation is present if and only if    *)
(* there is a 'Large file size' bottleneck and the 'Network' (MEDIUM)      *)
(* recommendation if and only if there is a 'Slow request' bottleneck,     *)
(* each whatever the other rules do; every category appears at most once.  *)
(***************************************************************************)
IssueBottlenecks(report, issue) ==
  {i \in 1..Len(report.bottlenecks) : report.bottlenecks[i].issue = issue}

C15_FileSizeAndNetworkRules ==
  pc = "returned" =>
    /\ HasOptimization(analysisReport, "HIGH", "File Size")
         <=> IssueBottlenecks(analysisReport, "Large file size") # {}
    /\ HasOptimization(analysisReport, "MEDIUM", "Network")
         <=> IssueBottlenecks(analysisReport, "Slow request") # {}
    /\ \A i \in 1..Len(analysisReport.optimizations) :
         CategoryCount(analysisReport, analysisReport.optimizations[i].category) = 1
    /\ CategoryCount(analysisReport, "File Size") = 1
         => HasOptimization(analysisReport, "HIGH", "File Size")
    /\ CategoryCount(analysisReport, "Network") = 1
         => HasOptimization(analysisReport, "MEDIUM", "Network")

C15_Witness ==
  /\ pc = "returned"
  /\ IssueBottlenecks(analysisReport, "Slow request") # {}
  /\ IssueBottlenecks(analysisReport, "Large file size") = {}
  /\ HasOptimization(analysisReport, "MEDIUM", "Network")
  /\ HasOptimization(analysisReport, "HIGH", "Images")
  /\ ~HasOptimization(analysisReport, "HIGH", "File Size")

(***************************************************************************)
(* C16: the resource class of a record is decided by the first marker, in  *)
(* the order text/html, text/css, javascript, image/, font/, that occurs   *)
(* in its mimeType; a mimeType with none of them, empty or missing, is     *)
(* classified other.                                                       *)
(***************************************************************************)
MarkerOrder ==
  <<[marker |-> "text/html", class |-> "html"],
    [marker |-> "text/css", class |-> "css"],
    [marker |-> "javascript", class |-> "js"],
    [marker |-> "image/", class |-> "image"],
    [marker |-> "font/", class |-> "font"]>>

FirstMarkerClass(entry) ==
  LET present == IF entry.mimeType = <<>> THEN {} ELSE entry.mimeType[1]
      hits == {j \in 1..Len(MarkerOrder) : MarkerOrder[j].marker \in present}
  IN IF hits = {} THEN "other"
     ELSE MarkerOrder[CHOOSE j \in hits : \A h \in hits : j <= h].class

Classes == {"html", "css", "js", "image", "font", "other"}

C16_ClassByFirstMarker ==
  AnalysisDone =>
    /\ \A c \in Classes :
         LET members == {i \in 1..Len(EntriesNow) : FirstMarkerClass(EntriesNow[i]) = c} IN
         IF members = {} THEN c \notin DOMAIN analysisReport.resourceBreakdown
         ELSE /\ c \in DOMAIN analysisReport.resourceBreakdown
              /\ analysisReport.resourceBreakdown[c].count = Cardinality(members)
    /\ \A n \in 1..Len(analysisReport.bottlenecks) :
         \E i \in 1..Len(EntriesNow) :
           /\ analysisReport.bottlenecks[n].type = FirstMarkerClass(EntriesNow[i])
           /\ analysisReport.bottlenecks[n].time = EntriesNow[i].time
           /\ analysisReport.bottlenecks[n].url.id = EntriesNow[i].url.id

C16_Witness ==
  /\ AnalysisDone
  /\ Len(EntriesNow) = 3
  /\ EntriesNow[1].mimeType = <<{"text/html", "javascript"}>>
  /\ EntriesNow[2].mimeType = <<{"javascript", "image/"}>>
  /\ EntriesNow[3].mimeType = <<>>
  /\ DOMAIN analysisReport.resourceBreakdown = {"html", "js", "other"}

(***************************************************************************)
(* C17: when the trace contains several html-class records, the critical   *)
(* path's HTML Document item is the one with the smallest start offset;    *)
(* when it contains none, the critical path has no HTML Document item.     *)
(***************************************************************************)
HtmlItems(report) ==
  SelectSeq(report.criticalPathItems, LAMBDA item : item.type = "HTML Document")

C17_HtmlItemIsEarliest ==
  AnalysisDone =>
    LET htmls == {i \in 1..Len(EntriesNow) : FirstMarkerClass(EntriesNow[i]) = "html"}
        items == HtmlItems(analysisReport)
    IN IF htmls = {} THEN items = <<>>
       ELSE /\ Len(items) = 1
            /\ \E i \in htmls :
                 /\ \A j \in htmls : StartMs(EntriesNow[i]) <= StartMs(EntriesNow[j])
                 /\ items[1] = HtmlItem(EntriesNow[i])

(***************************************************************************)
(* C18: the css/js part of the critical path is exactly the (up to) 5      *)
(* shortest css or js records whose URL contains neither 'analytics' nor   *)
(* 'tracking', in ascending duration order; no record excluded by URL      *)
(* appears and no selected record is longer than an eligible one left out. *)
(***************************************************************************)
ResourceItems(report) ==
  SelectSeq(report.criticalPathItems, LAMBDA item : item.type # "HTML Document")

Eligible(entries) ==
  {i \in 1..Len(entries) :
     /\ \E m \in {"text/css", "javascript"} : m \in ContentTypeOf(entries[i])
     /\ ~entries[i].url.analytics
     /\ ~entries[i].url.tracking}

SameResource(item, entry) ==
  /\ item.url.id = entry.url.id
  /\ item.time = entry.time
  /\ item.size = formatBytes(SizeOf(entry))

Malformed(entry) == entry.status = <<>>

C19_MalformedEntryRejected ==
  (harFile.kind = "har" /\ pc # "performAnalysis") =>
    ((\E i \in 1..Len(harFile.entries) : Malformed(harFile.entries[i]))
       => (pc = "exited" /\ exitCode = 1 /\ analysed = <<>>))

(***************************************************************************)
(* C20: a command-line run ends with exit code 0 whenever the trace was    *)
(* loaded and analysed, whatever issues were found, and with a non-zero    *)
(* exit code whenever the trace file is missing, cannot be parsed or has   *)
(* no top-level entry list.                                                *)
(***************************************************************************)
C20_ExitCodes ==
  pc = "exited" =>
    /\ analysed # <<>> => exitCode = 0
    /\ file.kind \in {"missing", "unparsable", "noLog"} => exitCode \notin {-1, 0}

C20_Witness ==
  /\ pc = "exited"
  /\ exitCode = 0
  /\ analysisReport.bottlenecks # <<>>
  /\ HasOptimization(analysisReport, "CRITICAL", "Overall Performance")

(***************************************************************************)
(* C21: every record's size used by the analysis is >= 0: a missing size   *)
(* or a negative 'unknown' marker counts as 0, so each class's totalSize   *)
(* is a sum of non-negative sizes.                                         *)
(***************************************************************************)
KnownSize(entry) ==
  IF entry.size = <<>> THEN 0 ELSE IF entry.size[1] < 0 THEN 0 ELSE entry.size[1]

ClassMembers(entries, class) ==
  {i \in 1..Len(entries) : FirstMarkerClass(entries[i]) = class}

C21_SizesNonNegative ==
  AnalysisDone =>
    \A c \in DOMAIN analysisReport.resourceBreakdown :
      /\ analysisReport.resourceBreakdown[c].totalSize >= 0
      /\ analysisReport.resourceBreakdown[c].totalSize
           = SumOver([i \in 1..Len(EntriesNow) |-> KnownSize(EntriesNow[i])],
                     ClassMembers(EntriesNow, c))

(***************************************************************************)
(* C22: all start offsets are measured from the minimum start timestamp of *)
(* the trace: every start offset stored in a bottleneck or used as a gap   *)
(* boundary is >= 0, for any order of the entries.                         *)
(***************************************************************************)
C22_OffsetsFromEarliestStart ==
  AnalysisDone =>
    LET origin == MinOf(StartOffsets(EntriesNow))
        b      == analysisReport.bottlenecks
        gaps   == TimelineGapsIn(analysisReport)
    IN /\ \A n \in 1..Len(b) :
            /\ b[n].startTime >= 0
            /\ \E i \in 1..Len(EntriesNow) : b[n] = Bottleneck(EntriesNow[i], origin, b[n].issue)
       /\ \A j \in 1..Len(gaps) : gaps[j].gapStart >= 0 /\ gaps[j].gapEnd >= 0

(***************************************************************************)
(* C23: in the report every class's avgTime equals its totalTime divided   *)
(* by its count (avgTime * count = totalTime), without rounding.           *)
(***************************************************************************)
C23_AverageIsExact ==
  AnalysisDone =>
    \A c \in DOMAIN analysisReport.resourceBreakdown :
      LET row == analysisReport.resourceBreakdown[c] IN
      row.avgTime.num * row.count = row.totalTime * row.avgTime.den

(***************************************************************************)
(* C24: the resource breakdown does not depend on the order of             *)
(* aggregation: for every permutation of the entries and every split into  *)
(* two shards whose partial counts, sizes and times are added field-wise,  *)
(* the per-class count, totalSize, totalTime and final avgTime are those   *)
(* of the report.                                                          *)
(***************************************************************************)
Orderings(n) ==
  {f \in [1..n -> 1..n] : \A a \in 1..n : \A b \in 1..n : f[a] = f[b] => a = b}

\* the breakdown the per-record pass of a new analyzer computes for a shard
ShardBreakdown(shard) ==
  AnalyzeRequests(NewReport, shard, Len(shard), 0).resourceBreakdown

FieldOr0(rb, class, field) == IF class \in DOMAIN rb THEN rb[class][field] ELSE 0

MergeBreakdowns(a, b) ==
  [c \in DOMAIN a \cup DOMAIN b |->
     [count     |-> FieldOr0(a, c, "count") + FieldOr0(b, c, "count"),
      totalSize |-> FieldOr0(a, c, "totalSize") + FieldOr0(b, c, "totalSize"),
      totalTime |-> FieldOr0(a, c, "totalTime") + FieldOr0(b, c, "totalTime")]]

C24_BreakdownOrderIndependent ==
  AnalysisDone =>
    LET n  == Len(EntriesNow)
        rb == analysisReport.resourceBreakdown
    IN \A f \in Orderings(n) : \A cut \in 0..n :
         LET permuted == [i \in 1..n |-> EntriesNow[f[i]]]
             merged   == MergeBreakdowns(ShardBreakdown(SubSeq(permuted, 1, cut)),
                                         ShardBreakdown(SubSeq(permuted, cut + 1, n)))
         IN /\ DOMAIN merged = DOMAIN rb
            /\ \A c \in DOMAIN rb :
                 /\ merged[c].count = rb[c].count
                 /\ merged[c].totalSize = rb[c].totalSize
                 /\ merged[c].totalTime = rb[c].totalTime
                 /\ rb[c].avgTime = [num |-> MathRound(merged[c].totalTime, merged[c].count),
                                     den |-> 1]

C24_Witness ==
  /\ AnalysisDone
  /\ Len(EntriesNow) = 3
  /\ EntriesNow[1] # EntriesNow[2]
  /\ FirstMarkerClass(EntriesNow[1]) = FirstMarkerClass(EntriesNow[2])
  /\ SizeOf(EntriesNow[1]) # SizeOf(EntriesNow[2])
  /\ FirstMarkerClass(EntriesNow[3]) # FirstMarkerClass(EntriesNow[1])
  /\ analysisReport.resourceBreakdown[FirstMarkerClass(EntriesNow[1])].count = 2

(***************************************************************************)
(* C25: no analysis stage modifies what an earlier stage produced or the   *)
(* input: after the whole analysis the breakdown's count, totalSize,       *)
(* totalTime and avgTime values and the set of bottleneck entries are      *)
(* those the per-record pass produced, and the input entry list keeps its  *)
(* order.                                                                  *)
(***************************************************************************)
\* what the loop over the entries leaves in the report of a new analyzer
PerRecordPass(entries) ==
  AnalyzeRequests([NewReport EXCEPT !.totalLoadTime = EndTimeOf(entries) - StartTimeOf(entries)],
                  entries, Len(entries), StartTimeOf(entries))

SameQuotient(a, b) == a.num * b.den = b.num * a.den

C25_StagesDoNotModifyEarlierOutput ==
  AnalysisDone =>
    LET pass == PerRecordPass(analysed[1])
        rb   == analysisReport.resourceBreakdown
    IN /\ DOMAIN rb = DOMAIN pass.resourceBreakdown
       /\ \A c \in DOMAIN rb :
            /\ rb[c].count = pass.resourceBreakdown[c].count
            /\ rb[c].totalSize = pass.resourceBreakdown[c].totalSize
            /\ rb[c].totalTime = pass.resourceBreakdown[c].totalTime
            /\ SameQuotient(rb[c].avgTime, pass.resourceBreakdown[c].avgTime)
       /\ Len(analysisReport.bottlenecks) = Len(pass.bottlenecks)
       /\ Range(analysisReport.bottlenecks) = Range(pass.bottlenecks)
       /\ harFile.entries = file.entries

(***************************************************************************)
(* C26: gap detection orders the records by start offset with ties kept in *)
(* input order: of two records with equal start offsets the one listed     *)
(* earlier is the 'previous' one, and the gap list is the list of the gaps *)
(* over 50 ms between the pairs adjacent in that order.                    *)
(***************************************************************************)
\* the position of entry i when ties on the start keep the input order
StableRank(entries, i) ==
  1 + Cardinality({j \in 1..Len(entries) :
                     \/ StartMs(entries[j]) < StartMs(entries[i])
                     \/ StartMs(entries[j]) = StartMs(entries[i]) /\ j < i})

C26_GapOrderIsStable ==
  AnalysisDone =>
    LET es      == EntriesNow
        origin  == StartTimeOf(es)
        at(p)   == es[CHOOSE i \in 1..Len(es) : StableRank(es, i) = p]
        idle(p) == StartMs(at(p)) - (StartMs(at(p - 1)) + at(p - 1).time)
        pairs   == {p \in 2..Len(es) : idle(p) > MinorGapMs}
        gaps    == TimelineGapsIn(analysisReport)
    IN /\ Len(gaps) = Cardinality(pairs)
       /\ \A j \in 1..Len(gaps) :
            LET p == CHOOSE m \in pairs : Cardinality({q \in pairs : q <= m}) = j IN
            /\ gaps[j].gapStart = StartMs(at(p - 1)) + at(p - 1).time - origin
            /\ gaps[j].gapEnd = StartMs(at(p)) - origin
            /\ gaps[j].gapDuration = idle(p)
            /\ gaps[j].beforeResource = TruncateDots(at(p - 1).url, GapUrlChars)
            /\ gaps[j].afterResource = TruncateDots(at(p).url, GapUrlChars)

C26_Witness ==
  /\ AnalysisDone
  /\ Len(EntriesNow) = 3
  /\ StartMs(EntriesNow[1]) = 0 /\ EntriesNow[1].time = 150
  /\ StartMs(EntriesNow[2]) = 0 /\ EntriesNow[2].time = 50
  /\ StartMs(EntriesNow[3]) = 200
  /\ Len(TimelineGapsIn(analysisReport)) = 1
  /\ TimelineGapsIn(analysisReport)[1].gapStart = 50
  /\ TimelineGapsIn(analysisReport)[1].gapEnd = 200

(***************************************************************************)
(* C27: the timeline gaps of one run are pairwise disjoint and ascending:  *)
(* each has gapEnd - gapStart = gapDuration > 0 and starts no earlier than *)
(* the previous gap ends; there are at most n-1 of them for n records, and *)
(* the 'Target Exceeded' entry, if any, is the last element of the list.   *)
(***************************************************************************)
C27_GapsDisjointAscending ==
  AnalysisDone =>
    LET gaps == TimelineGapsIn(analysisReport)
        all  == analysisReport.performanceGaps
    IN /\ \A j \in 1..Len(gaps) :
            /\ gaps[j].gapEnd - gaps[j].gapStart = gaps[j].gapDuration
            /\ gaps[j].gapDuration > 0
            /\ j > 1 => gaps[j].gapStart >= gaps[j - 1].gapEnd
       /\ Len(gaps) <= Len(EntriesNow) - 1
       /\ \A i \in 1..Len(all) : ~IsTimelineGap(all[i]) => i = Len(all)

C27_Witness ==
  /\ AnalysisDone
  /\ Len(analysisReport.performanceGaps) = 3
  /\ IsTimelineGap(analysisReport.performanceGaps[1])
  /\ IsTimelineGap(analysisReport.performanceGaps[2])
  /\ analysisReport.performanceGaps[2].gapStart > analysisReport.performanceGaps[1].gapEnd
  /\ ~IsTimelineGap(analysisReport.performanceGaps[3])

(***************************************************************************)
(* C28: the sum of the durations of all timeline gaps reported by one      *)
(* analysis never exceeds the reported totalLoadTime.                      *)
(***************************************************************************)
C28_GapSumWithinLoadTime ==
  AnalysisDone =>
    LET gaps == TimelineGapsIn(analysisReport) IN
    SumOver([j \in 1..Len(gaps) |-> gaps[j].gapDuration], 1..Len(gaps))
      <= analysisReport.totalLoadTime

(***************************************************************************)
(* C29: critical-path extraction agrees with the classifier: every         *)
(* 'Critical CSS' item is a record classified css, every 'Critical JS'     *)
(* item a record classified js, the 'HTML Document' item a record          *)
(* classified html, and no record is in the critical path under two        *)
(* different labels.                                                       *)
(***************************************************************************)
LabelClass(type) ==
  IF type = "HTML Document" THEN "html"
  ELSE IF type = "Critical CSS" THEN "css"
  ELSE "js"

C29_CriticalPathAgreesWithClassifier ==
  AnalysisDone =>
    LET items == analysisReport.criticalPathItems IN
    /\ \A a \in 1..Len(items) :
         \E i \in 1..Len(EntriesNow) :
           /\ SameResource(items[a], EntriesNow[i])
           /\ FirstMarkerClass(EntriesNow[i]) = LabelClass(items[a].type)
    /\ \A a \in 1..Len(items) : \A b \in 1..Len(items) :
         (/\ items[a].url = items[b].url
          /\ items[a].time = items[b].time
          /\ items[a].size = items[b].size) => items[a].type = items[b].type

(***************************************************************************)
(* C30: a report is written only after the whole analysis has completed:   *)
(* a run that fails while loading or analysing ends with no report         *)
(* written, and a written report carries the findings of every stage of    *)
(* performAnalysis (load time, breakdown, critical path, gaps, formatted   *)
(* and rounded breakdown, ranked bottlenecks).                             *)
(***************************************************************************)
C30_ReportOnlyAfterAnalysis ==
  /\ exitCode = 1 => reportFile = <<>>
  /\ (pc = "exited" /\ analysed = <<>>) => (exitCode = 1 /\ reportFile = <<>>)
  /\ reportFile # <<>> =>
       /\ analysed # <<>>
       /\ pc \in {"generateOptimizationPlan", "returned", "exited"}
       /\ LET r  == reportFile[1].report
              es == analysed[Len(analysed)]
              tl == TimelineGapsIn(r)
          IN /\ r.totalLoadTime = EndTimeOf(es) - StartTimeOf(es)
             /\ DOMAIN r.resourceBreakdown = {FirstMarkerClass(es[i]) : i \in 1..Len(es)}
             /\ \A c \in DOMAIN r.resourceBreakdown :
                  /\ r.resourceBreakdown[c].count = Cardinality(ClassMembers(es, c))
                  /\ r.resourceBreakdown[c].totalSizeFormatted # <<>>
                  /\ r.resourceBreakdown[c].avgTime.den = 1
             /\ Len(HtmlItems(r))
                  = (IF \E i \in 1..Len(es) : FirstMarkerClass(es[i]) = "html" THEN 1 ELSE 0)
             /\ Len(ResourceItems(r))
                  = (IF Cardinality(Eligible(es)) < CriticalResourceLimit
                     THEN Cardinality(Eligible(es)) ELSE CriticalResourceLimit)
             /\ Len(tl) = Cardinality({p \in 2..Len(es) :
                             \E i \in 1..Len(es) : \E j \in 1..Len(es) :
                               /\ StableRank(es, i) = p - 1
                               /\ StableRank(es, j) = p
                               /\ StartMs(es[j]) - (StartMs(es[i]) + es[i].time) > MinorGapMs})
             /\ (Len(r.performanceGaps) > Len(tl)) <=> (r.totalLoadTime > targetLoadTime)
             /\ Len(r.bottlenecks)
                  = Cardinality({t \in (1..Len(es)) \X {"Slow request", "Large file size"} :
                                   Trips(es[t[1]], t[2])})
             /\ \A a \in 1..Len(r.bottlenecks) : \A b \in 1..Len(r.bottlenecks) :
                  a < b => r.bottlenecks[a].time >= r.bottlenecks[b].time

C30_Witness ==
  /\ pc = "exited"
  /\ exitCode = 0
  /\ reportFile # <<>>
  /\ Len(reportFile[1].report.bottlenecks) >= 2
  /\ reportFile[1].report.criticalPathItems # <<>>
  /\ Len(TimelineGapsIn(reportFile[1].report)) >= 1
  /\ Cardinality(DOMAIN reportFile[1].report.resourceBreakdown) = 2

====
